---------------------------- MODULE Spec2Model ----------------------------
(***************************************************************************)
(* State-machine model of sigil: a winit ApplicationHandler (App) that     *)
(* owns a wgpu renderer (Render) with a sine pipeline, a post pipeline,    *)
(* an off-screen texture and an egui control panel (Ui).                   *)
(*                                                                         *)
(* f32 wave parameters are held in thousandths (0.5 is 500, 8. is 8000).   *)
(* GPU objects (textures, views, bind groups) are held by identity.        *)
(***************************************************************************)
EXTENDS Integers, Sequences, FiniteSets, TLC

(***************************************************************************)
(* Bounds of the exploration.                                              *)
(***************************************************************************)
MaxFrames == 11
MaxEdits == 7
MaxResizes == 1

(***************************************************************************)
(* Program constants.                                                      *)
(***************************************************************************)
NumSlots == 8
DefaultWidth == 800
DefaultHeight == 600

\* f32 has a 24-bit significand: every integer up to 2^24 is exact, and
\* 2^24 + 1 rounds (ties to even) back to 2^24.
F32ExactLimit == 2^24

Slots == 0 .. (NumSlots - 1)

VARIABLES
    app,            \* "Uninitialized" | "Initialized"      (enum App)
    render,         \* <<>> or <<the Render of App::Initialized>>
    pendingRedraw,  \* window.request_redraw() asked and not yet delivered
    exitRequested,  \* event_loop.exit() was called
    panicked,       \* "none" or the expect() message that aborted resumed()
    newResult,      \* <<>> or <<what Render::new was given and returned>>
    windowsCreated, \* number of create_window calls that returned a window
    rendersCreated, \* number of Render values built
    frame,          \* what the last render() call did (see RenderCall)
    redraws,        \* RedrawRequested events handled since initialisation
    frameBase,      \* redraws already handled when the exploration starts
    edits,          \* slider edits made so far
    lastEvent       \* the event the last handler call was given

vars == <<app, render, pendingRedraw, exitRequested, panicked, newResult,
          windowsCreated, rendersCreated, frame, redraws, frameBase, edits,
          lastEvent>>

(***************************************************************************)
(* global.rs                                                               *)
(***************************************************************************)
GlobalNew(width, height) ==
    [resolution |-> <<width, height>>, phase |-> 0]

\* self.phase + 1. in f32
F32AddOne(x) == IF x >= F32ExactLimit THEN x ELSE x + 1

IncrementFrame(g) == [g EXCEPT !.phase = F32AddOne(g.phase)]

SetResolution(g, width, height) == [g EXCEPT !.resolution = <<width, height>>]

(***************************************************************************)
(* ui.rs: the wave slots of the control panel                              *)
(***************************************************************************)
UiSineWaveDataDefault ==
    [amplitude    |-> 50,
     center       |-> <<500, 500>>,
     inner_radius |-> 500,
     thickness    |-> 10,
     cycles       |-> 8000,
     speed        |-> 5,
     init         |-> FALSE]

\* Faulty variant of UiWaves::default: every slot starts active.
UiWavesAllInit ==
    [i \in Slots |-> [UiSineWaveDataDefault EXCEPT !.init = TRUE]]

UiWavesDefault ==
    [i \in Slots |-> IF i = 0
                     THEN [UiSineWaveDataDefault EXCEPT !.init = TRUE]
                     ELSE UiSineWaveDataDefault]

\* What egui will report to the panel in its next pass.
NoInput == [kind |-> "none", slot |-> 0, field |-> "none", raw |-> 0]
ClickAdd == [kind |-> "add", slot |-> 0, field |-> "none", raw |-> 0]
DragSlider(s, f, v) == [kind |-> "slider", slot |-> s, field |-> f, raw |-> v]

\* Ui::new.  drawn: an egui pass has shown the panel; button: the last pass
\* offered "Add Wave".
UiNew ==
    [waves |-> UiWavesDefault, input |-> NoInput,
     drawn |-> FALSE, button |-> FALSE]

ActiveCount(waves) == Cardinality({i \in Slots : waves[i].init})

\* Faulty variant of position(): the last slot that is not init.
LastFree(waves) ==
    IF \A i \in Slots : waves[i].init
    THEN NumSlots
    ELSE CHOOSE i \in Slots : /\ ~waves[i].init
                              /\ \A j \in Slots : j > i => waves[j].init

\* self.waves.0.iter().position(|wave_data| !wave_data.init); NumSlots is None
FirstFree(waves) ==
    IF \A i \in Slots : waves[i].init
    THEN NumSlots
    ELSE CHOOSE i \in Slots : /\ ~waves[i].init
                              /\ \A j \in Slots : j < i => waves[j].init

SliderFields ==
    {"center_x", "center_y", "amplitude", "inner_radius", "thickness",
     "cycles", "speed"}

\* The ranges given to egui::Slider::new, and the step of step_by (0: none).
SliderLo(f) ==
    CASE f = "thickness" -> 10
      [] f = "cycles"    -> 1000
      [] f = "speed"     -> -100
      [] OTHER           -> 0

SliderHi(f) ==
    CASE f = "amplitude" -> 100
      [] f = "thickness" -> 100
      [] f = "cycles"    -> 16000
      [] f = "speed"     -> 100
      [] OTHER           -> 1000

SliderStep(f) == IF f = "cycles" THEN 1000 ELSE 0

\* Faulty variant: the slider does not keep the value in its range.
NoClamp(v, lo, hi) == v

Clamp(v, lo, hi) == IF v < lo THEN lo ELSE IF v > hi THEN hi ELSE v

\* Round v to the nearest multiple of step (halves away from zero), as
\* egui's slider does for step_by.
RoundToStep(v, step) ==
    IF step = 0 THEN v
    ELSE IF v >= 0 THEN ((2 * v + step) \div (2 * step)) * step
         ELSE -(((2 * (-v) + step) \div (2 * step)) * step)

\* The value an egui slider writes through its &mut f32 for a raw pointer
\* value: snapped to the step and clamped to the range.
SliderValue(f, raw) ==
    Clamp(RoundToStep(raw, SliderStep(f)), SliderLo(f), SliderHi(f))

SetField(w, f, v) ==
    CASE f = "center_x"     -> [w EXCEPT !.center = <<v, w.center[2]>>]
      [] f = "center_y"     -> [w EXCEPT !.center = <<w.center[1], v>>]
      [] f = "amplitude"    -> [w EXCEPT !.amplitude = v]
      [] f = "inner_radius" -> [w EXCEPT !.inner_radius = v]
      [] f = "thickness"    -> [w EXCEPT !.thickness = v]
      [] f = "cycles"       -> [w EXCEPT !.cycles = v]
      [] f = "speed"        -> [w EXCEPT !.speed = v]
      [] OTHER              -> w

\* Faulty variant of the click: the slot before the new one is cleared.
PanelAddMoving(waves, input) ==
    LET pos == FirstFree(waves) IN
    IF pos < NumSlots /\ input.kind = "add"
    THEN [i \in Slots |-> [waves[i] EXCEPT !.init = (i = pos \/ (@ /\ i # pos - 1))]]
    ELSE waves

\* The "Add Wave" button: shown only while some slot is not init; a click
\* sets the init flag of the first such slot.
PanelAdd(waves, input) ==
    LET pos == FirstFree(waves) IN
    IF pos < NumSlots /\ input.kind = "add"
    THEN [waves EXCEPT ![pos].init = TRUE]
    ELSE waves

\* The sliders: one group per slot that is init.
PanelSliders(waves, input) ==
    IF input.kind = "slider" /\ waves[input.slot].init
    THEN [waves EXCEPT ![input.slot] =
             SetField(@, input.field, SliderValue(input.field, input.raw))]
    ELSE waves

\* Ui::panel: the button row, then the sliders of the active waves.
Panel(waves, input) == PanelSliders(PanelAdd(waves, input), input)

(***************************************************************************)
(* pipelines/sine.rs                                                       *)
(***************************************************************************)
SineWaveDataDefault ==
    [center       |-> <<500, 500>>,
     inner_radius |-> 500,
     thickness    |-> 10,
     amplitude    |-> 50,
     cycles       |-> 8000,
     speed        |-> 5,
     padding      |-> 0]

\* Waves::default(): the wave list the pipeline is built with.  Its length is
\* fixed for the life of the pipeline (n is chosen when Render::new runs).
WavesDefault(n) == [i \in 1 .. n |-> SineWaveDataDefault]

\* Faulty variant of the closure: speed is not copied.
CopyWaveWithoutSpeed(old_data, new_data) ==
    [old_data EXCEPT !.center       = new_data.center,
                     !.amplitude    = new_data.amplitude,
                     !.inner_radius = new_data.inner_radius,
                     !.thickness    = new_data.thickness,
                     !.cycles       = new_data.cycles]

\* The closure of update_sine_wave_data: copy the six parameters.
CopyWave(old_data, new_data) ==
    [old_data EXCEPT !.center       = new_data.center,
                     !.amplitude    = new_data.amplitude,
                     !.inner_radius = new_data.inner_radius,
                     !.thickness    = new_data.thickness,
                     !.cycles       = new_data.cycles,
                     !.speed        = new_data.speed]

\* wave_data.iter_mut().zip(ui waves): pairs up to the shorter of the two.
ZipWaves(wave_data, ui_waves) ==
    [i \in 1 .. Len(wave_data) |->
        IF (i - 1) \in Slots THEN CopyWave(wave_data[i], ui_waves[i - 1])
                             ELSE wave_data[i]]

SinePipelineNew(wave_data, global) ==
    [global        |-> global,
     global_buffer |-> global,
     wave_data     |-> wave_data,
     wave_buffer   |-> wave_data]

UpdateGlobalFrame(sp) ==
    LET g == IncrementFrame(sp.global) IN
    [sp EXCEPT !.global = g, !.global_buffer = g]

UpdateSineWaveData(sp, ui_waves) ==
    LET w == ZipWaves(sp.wave_data, ui_waves) IN
    [sp EXCEPT !.wave_data = w, !.wave_buffer = w]

\* Faulty variant: the Global is rebuilt, which resets the phase.
SineResetGlobal(sp, w, h) ==
    [sp EXCEPT !.global = GlobalNew(w, h), !.global_buffer = GlobalNew(w, h)]

SineUpdateGlobalResolution(sp, w, h) ==
    LET g == SetResolution(sp.global, w, h) IN
    [sp EXCEPT !.global = g, !.global_buffer = g]

\* draw_indexed(0..6, 0, 0..self.sine.wave_data.0.len())
SineInstances(sp) == Len(sp.wave_data)

(***************************************************************************)
(* pipelines/post.rs                                                       *)
(***************************************************************************)
PostPipelineNew(texture_view, global) ==
    [global                |-> global,
     global_buffer         |-> global,
     off_screen_bind_group |-> texture_view]

\* Faulty variant: the post pipeline keeps its old resolution.
PostKeepGlobalResolution(pp, w, h) == pp

PostUpdateGlobalResolution(pp, w, h) ==
    LET g == SetResolution(pp.global, w, h) IN
    [pp EXCEPT !.global = g, !.global_buffer = g]

\* Faulty variant: the bind group is not rebuilt for the new view.
KeepOffScreenBindgroup(pp, texture_view) == pp

\* update_off_screen_bindgroup: a bind group over the given view.
UpdateOffScreenBindgroup(pp, texture_view) ==
    [pp EXCEPT !.off_screen_bind_group = texture_view]

(***************************************************************************)
(* render.rs                                                               *)
(***************************************************************************)
\* What the platform answers while Render::new runs: whether the window can
\* be created, its inner size, whether each wgpu request succeeds, the
\* capabilities of the surface, and the length of Waves::default().
WindowSizes == {<<DefaultWidth, DefaultHeight>>, <<640, 480>>}
FormatLists == {<<>>, <<"Bgra8Unorm", "Bgra8UnormSrgb">>}
PresentModeLists == {<<>>, <<"Fifo">>}
AlphaModeLists == {<<>>, <<"Opaque">>}
WaveLens == {1, NumSlots}

Envs ==
    [window : BOOLEAN, size : WindowSizes, surface : BOOLEAN,
     adapter : BOOLEAN, device : BOOLEAN, formats : FormatLists,
     present_modes : PresentModeLists, alpha_modes : AlphaModeLists,
     waves_len : WaveLens]

IsSrgb(format) == format = "Bgra8UnormSrgb"

\* formats.iter().find(|f| f.is_srgb()).or(formats.first()); "" is None
SurfaceFormat(formats) ==
    IF \E i \in 1 .. Len(formats) : IsSrgb(formats[i])
    THEN formats[CHOOSE i \in 1 .. Len(formats) :
                    /\ IsSrgb(formats[i])
                    /\ \A j \in 1 .. (i - 1) : ~IsSrgb(formats[j])]
    ELSE IF Len(formats) > 0 THEN formats[1] ELSE ""

\* Faulty variant of Render::new: a failed request_device is not returned.
RenderNewErrorIgnoringDevice(env) ==
    CASE ~env.surface                  -> "create_surface"
      [] ~env.adapter                  -> "request_adapter"
      [] SurfaceFormat(env.formats) = "" -> "Surface is incompatible with the adapter (format)"
      [] Len(env.present_modes) = 0    -> "Surface is incompatible with the adapter (present mode)"
      [] Len(env.alpha_modes) = 0      -> "No supported alpha modes found"
      [] OTHER                         -> "none"

\* The first `?` of Render::new that returns early, or "none".
RenderNewError(env) ==
    CASE ~env.surface                  -> "create_surface"
      [] ~env.adapter                  -> "request_adapter"
      [] ~env.device                   -> "request_device"
      [] SurfaceFormat(env.formats) = "" -> "Surface is incompatible with the adapter (format)"
      [] Len(env.present_modes) = 0    -> "Surface is incompatible with the adapter (present mode)"
      [] Len(env.alpha_modes) = 0      -> "No supported alpha modes found"
      [] OTHER                         -> "none"

\* create_off_screen_texture: a new texture (id) and its view; a view is
\* identified by the texture it was created from.
CreateOffScreenTexture(width, height, id) ==
    [id |-> id, width |-> width, height |-> height]

\* The Render that Render::new builds when no step fails.
RenderNew(env) ==
    LET config == [width        |-> env.size[1],
                   height       |-> env.size[2],
                   format       |-> SurfaceFormat(env.formats),
                   present_mode |-> env.present_modes[1],
                   alpha_mode   |-> env.alpha_modes[1]]
        texture == CreateOffScreenTexture(config.width, config.height, 1)
        global == GlobalNew(DefaultWidth, DefaultHeight)
    IN  [config                  |-> config,
         surface_config          |-> [width |-> config.width,
                                      height |-> config.height],
         off_screen_texture      |-> texture,
         off_screen_texture_view |-> texture.id,
         textures_created        |-> 1,
         ui                      |-> UiNew,
         sine_pipeline           |-> SinePipelineNew(WavesDefault(env.waves_len),
                                                     global),
         post_pipeline           |-> PostPipelineNew(texture.id, global)]

\* Faulty variant of Render::resize: the size is applied even when it is 0.
ResizeAlways(r, new_size) ==
    LET id == r.textures_created + 1
        texture == CreateOffScreenTexture(new_size[1], new_size[2], id)
    IN  [r EXCEPT
           !.config.width = new_size[1],
           !.config.height = new_size[2],
           !.surface_config = [width |-> new_size[1], height |-> new_size[2]],
           !.sine_pipeline =
               SineUpdateGlobalResolution(@, new_size[1], new_size[2]),
           !.post_pipeline =
               UpdateOffScreenBindgroup(
                   PostUpdateGlobalResolution(@, new_size[1], new_size[2]),
                   texture.id),
           !.off_screen_texture = texture,
           !.off_screen_texture_view = texture.id,
           !.textures_created = id]

\* Render::resize
Resize(r, new_size) ==
    IF new_size[2] > 0 /\ new_size[1] > 0
    THEN LET id == r.textures_created + 1
             texture == CreateOffScreenTexture(new_size[1], new_size[2], id)
         IN  [r EXCEPT
                !.config.width = new_size[1],
                !.config.height = new_size[2],
                !.surface_config = [width |-> new_size[1],
                                    height |-> new_size[2]],
                !.sine_pipeline =
                    SineUpdateGlobalResolution(@, new_size[1], new_size[2]),
                !.post_pipeline =
                    UpdateOffScreenBindgroup(
                        PostUpdateGlobalResolution(@, new_size[1], new_size[2]),
                        texture.id),
                !.off_screen_texture = texture,
                !.off_screen_texture_view = texture.id,
                !.textures_created = id]
    ELSE r

\* One entry of the record of a render() call.
Step(op, target, load, source, instances) ==
    [op |-> op, target |-> target, load |-> load, source |-> source,
     instances |-> instances]

\* The surface texture's view is target 0; off-screen views are 1, 2, ...
SurfaceView == 0

RequestRedrawStep == Step("request_redraw", -1, "", -1, 0)
SinePassStep(r) ==
    Step("sine_pass", r.off_screen_texture_view, "clear_black", -1,
         SineInstances(r.sine_pipeline))
PostPassStep(r) ==
    Step("post_pass", SurfaceView, "clear_black",
         r.post_pipeline.off_screen_bind_group, 1)
UiPassStep == Step("ui_pass", SurfaceView, "load", -1, 0)
SubmitStep == Step("submit", -1, "", -1, 0)
PresentStep == Step("present", SurfaceView, "", -1, 0)

\* Ui::render: begin_frame takes the pending input, panel runs the widgets,
\* end_frame records the UI pass onto the encoder.
UiRender(ui) ==
    [waves  |-> Panel(ui.waves, ui.input),
     input  |-> NoInput,
     drawn  |-> TRUE,
     button |-> FirstFree(ui.waves) < NumSlots]

\* Faulty variant of render(): the post pass is recorded before the sine
\* pass.
RecordedPassesPostFirst(r) == <<PostPassStep(r), SinePassStep(r), UiPassStep>>

\* The passes recorded onto the encoder, in the order render() records them.
RecordedPasses(r) == <<SinePassStep(r), PostPassStep(r), UiPassStep>>

\* What follows the recording: queue.submit, then surface_texture.present.
SubmitAndPresent == <<SubmitStep, PresentStep>>

\* The pipeline updates render() makes before it acquires the surface
\* texture.
SyncPipelines(r) ==
    [r EXCEPT !.sine_pipeline =
        UpdateSineWaveData(UpdateGlobalFrame(@), r.ui.waves)]

\* Render::render: the Render it leaves, its result and the record of what
\* it did.  acquired: whether surface.get_current_texture() succeeded.
RenderCall(r, acquired) ==
    LET r1 == SyncPipelines(r) IN
    IF ~acquired
    THEN [render |-> r1, result |-> "err", log |-> <<RequestRedrawStep>>]
    ELSE [render |-> [r1 EXCEPT !.ui = UiRender(@)],
          result |-> "ok",
          log    |-> <<RequestRedrawStep>> \o RecordedPasses(r1)
                        \o SubmitAndPresent]

\* Faulty variant: render() never asks for the next redraw.
RequestsRedrawNever(log) == FALSE

\* Whether a render() call asked the window for another RedrawRequested.
RequestsRedraw(log) ==
    \E i \in 1 .. Len(log) : log[i].op = "request_redraw"

\* Ui::handle_input: egui keeps what the event means for the panel.
HandleUiInputs(r, gesture) ==
    IF gesture.kind = "none" THEN r ELSE [r EXCEPT !.ui.input = gesture]

(***************************************************************************)
(* app.rs and main.rs: the event loop and the ApplicationHandler           *)
(***************************************************************************)
NoFrame == [result |-> "none", log |-> <<>>, ui_at_start |-> UiWavesDefault]

Event(kind, size) == [kind |-> kind, size |-> size]

\* Faulty variant of is_initialized: the early return of resumed() is lost.
IsInitializedNever(a) == FALSE

\* App::is_initialized
IsInitialized(a) == a # "Uninitialized"

\* Faulty variant of the match: only a failed render() exits.
ExitCalledOnErrorOnly(kind, result) ==
    kind = "RedrawRequested" /\ result = "err"

\* Faulty variant of the match: the Err arm of RedrawRequested does nothing.
ExitCalledOnCloseOnly(kind, result) == kind = "CloseRequested"

\* The arms of window_event's match that call event_loop.exit():
\* CloseRequested, and RedrawRequested when render() returns Err.
ExitCalled(kind, result) ==
    \/ kind = "CloseRequested"
    \/ kind = "RedrawRequested" /\ result = "err"

\* The event loop delivers events while the process lives and exit() has
\* not been called.
Running == panicked = "none" /\ ~exitRequested

Init ==
    /\ app = "Uninitialized"
    /\ render = <<>>
    /\ pendingRedraw = FALSE
    /\ exitRequested = FALSE
    /\ panicked = "none"
    /\ newResult = <<>>
    /\ windowsCreated = 0
    /\ rendersCreated = 0
    /\ frame = NoFrame
    /\ redraws = 0
    /\ frameBase = 0
    /\ edits = 0
    /\ lastEvent = Event("none", <<0, 0>>)

\* App::resumed
Resumed ==
    /\ Running
    /\ lastEvent' = Event("resumed", <<0, 0>>)
    /\ UNCHANGED <<pendingRedraw, exitRequested, frame, redraws, frameBase,
                   edits>>
    /\ IF IsInitialized(app)
       THEN UNCHANGED <<app, render, panicked, newResult, windowsCreated,
                        rendersCreated>>
       ELSE \E env \in Envs :
              IF ~env.window
              THEN /\ panicked' = "Failed to create Window"
                   /\ UNCHANGED <<app, render, newResult, windowsCreated,
                                  rendersCreated>>
              ELSE /\ windowsCreated' = windowsCreated + 1
                   /\ newResult' = <<[env   |-> env,
                                       error |-> RenderNewError(env)]>>
                   /\ IF RenderNewError(env) = "none"
                      THEN /\ app' = "Initialized"
                           /\ render' = <<RenderNew(env)>>
                           /\ rendersCreated' = rendersCreated + 1
                           /\ UNCHANGED panicked
                      ELSE /\ panicked' = "Failed to create render"
                           /\ UNCHANGED <<app, render, rendersCreated>>

\* The slider drags a run makes, in this order (each at any time, between
\* any other events): every slider once, on the first and the second slot,
\* with raw pointer values below, above and inside the slider's range.
SliderScript ==
    <<DragSlider(0, "center_x", 16500), DragSlider(0, "cycles", 2500),
      DragSlider(0, "speed", -200), DragSlider(0, "amplitude", 16500),
      DragSlider(0, "center_y", -200), DragSlider(1, "inner_radius", -200),
      DragSlider(1, "thickness", 16500), DragSlider(1, "cycles", 16500)>>

\* The gestures a user can make on the panel as egui last drew it: a click
\* on "Add Wave" if it was offered, the next drag if its slider is shown.
Gestures(ui) ==
    (IF ui.button THEN {ClickAdd} ELSE {})
    \cup (IF /\ ui.drawn
             /\ edits < MaxEdits
             /\ edits < Len(SliderScript)
             /\ ui.waves[SliderScript[edits + 1].slot].init
          THEN {SliderScript[edits + 1]}
          ELSE {})

\* App::window_event for an event other than the three it matches (pointer,
\* keyboard, focus, ...): only egui sees it.
OtherEvent ==
    /\ Running
    /\ lastEvent' = Event("Other", <<0, 0>>)
    /\ UNCHANGED <<app, pendingRedraw, exitRequested, panicked, newResult,
                   windowsCreated, rendersCreated, frame, redraws, frameBase>>
    /\ IF app = "Uninitialized"
       THEN UNCHANGED <<render, edits>>
       ELSE \E g \in {NoInput} \cup (IF render[1].ui.input = NoInput
                                     THEN Gestures(render[1].ui) ELSE {}) :
              /\ render' = <<HandleUiInputs(render[1], g)>>
              /\ edits' = IF g.kind = "slider" THEN edits + 1 ELSE edits

\* Faulty variant of window_event: the let-else that returns while the App
\* is Uninitialized is missing in front of the CloseRequested arm.
CloseRequestedAlways ==
    /\ Running
    /\ lastEvent' = Event("CloseRequested", <<0, 0>>)
    /\ UNCHANGED <<app, render, pendingRedraw, panicked, newResult,
                   windowsCreated, rendersCreated, frame, redraws, frameBase,
                   edits>>
    /\ exitRequested' = ExitCalled("CloseRequested", "none")

\* App::window_event(WindowEvent::CloseRequested)
CloseRequested ==
    /\ Running
    /\ lastEvent' = Event("CloseRequested", <<0, 0>>)
    /\ UNCHANGED <<app, render, pendingRedraw, panicked, newResult,
                   windowsCreated, rendersCreated, frame, redraws, frameBase,
                   edits>>
    /\ IF app = "Uninitialized"
       THEN UNCHANGED exitRequested
       ELSE exitRequested' = ExitCalled("CloseRequested", "none")

\* App::window_event(WindowEvent::Resized(size))
ResizeSizes == {<<0, 600>>, <<800, 0>>, <<1024, 768>>}

Resized ==
    /\ Running
    /\ \E size \in ResizeSizes :
         /\ lastEvent' = Event("Resized", size)
         /\ IF app = "Uninitialized"
            THEN UNCHANGED render
            ELSE /\ \/ size[1] = 0
                    \/ size[2] = 0
                    \/ render[1].textures_created <= MaxResizes
                 /\ render' = <<Resize(render[1], size)>>
    /\ UNCHANGED <<app, pendingRedraw, exitRequested, panicked, newResult,
                   windowsCreated, rendersCreated, frame, redraws, frameBase,
                   edits>>

\* App::window_event(WindowEvent::RedrawRequested)
RedrawRequested ==
    /\ Running
    /\ lastEvent' = Event("RedrawRequested", <<0, 0>>)
    /\ UNCHANGED <<app, panicked, newResult, windowsCreated, rendersCreated,
                   frameBase, edits>>
    /\ IF app = "Uninitialized"
       THEN UNCHANGED <<render, pendingRedraw, exitRequested, frame, redraws>>
       ELSE /\ redraws < frameBase + MaxFrames
            /\ \E acquired \in BOOLEAN :
                 LET call == RenderCall(render[1], acquired) IN
                 /\ render' = <<call.render>>
                 /\ frame' = [result      |-> call.result,
                              log         |-> call.log,
                              ui_at_start |-> render[1].ui.waves]
                 /\ pendingRedraw' = RequestsRedraw(call.log)
                 /\ redraws' = redraws + 1
                 /\ exitRequested' = ExitCalled("RedrawRequested", call.result)

Next ==
    \/ Resumed
    \/ OtherEvent
    \/ CloseRequested
    \/ Resized
    \/ RedrawRequested

Spec == Init /\ [][Next]_vars

\* winit delivers the RedrawRequested that window.request_redraw() asked
\* for: the event loop polls (ControlFlow::Poll) and does not starve it.
DeliverRequestedRedraw == pendingRedraw /\ RedrawRequested

\* A session on a platform where every wgpu request succeeds: resumed(), then
\* Resized events, as many as the exploration allows.
RECURSIVE ResizedTimes(_, _)
ResizedTimes(r, k) ==
    IF k = 0 THEN r ELSE ResizedTimes(Resize(r, <<1024, 768>>), k - 1)

LiveEnv ==
    [window        |-> TRUE,
     size          |-> <<DefaultWidth, DefaultHeight>>,
     surface       |-> TRUE,
     adapter       |-> TRUE,
     device        |-> TRUE,
     formats       |-> <<"Bgra8Unorm", "Bgra8UnormSrgb">>,
     present_modes |-> <<"Fifo">>,
     alpha_modes   |-> <<"Opaque">>,
     waves_len     |-> NumSlots]

InitLive ==
    /\ app = "Initialized"
    /\ render = <<ResizedTimes(RenderNew(LiveEnv), MaxResizes)>>
    /\ pendingRedraw = FALSE
    /\ exitRequested = FALSE
    /\ panicked = "none"
    /\ newResult = <<[env |-> LiveEnv, error |-> RenderNewError(LiveEnv)]>>
    /\ windowsCreated = 1
    /\ rendersCreated = 1
    /\ frame = NoFrame
    /\ redraws = 0
    /\ frameBase = 0
    /\ edits = 0
    /\ lastEvent = Event("Resized", <<1024, 768>>)

SpecLive == InitLive /\ [][Next]_vars /\ WF_vars(DeliverRequestedRedraw)

\* A long-running session: the App was initialised, nobody touched the panel
\* or the window, and LongRunFrames frames have been rendered.
LongRunFrames == F32ExactLimit - 2

LongRunEnvs ==
    {env \in Envs : env.window /\ RenderNewError(env) = "none"}

LongRunRender(env) ==
    LET first == RenderCall(RenderNew(env), TRUE).render
        g == [first.sine_pipeline.global EXCEPT !.phase = LongRunFrames]
    IN  [first EXCEPT !.sine_pipeline.global = g,
                      !.sine_pipeline.global_buffer = g]

InitLongRun ==
    \E env \in LongRunEnvs :
        /\ app = "Initialized"
        /\ render = <<LongRunRender(env)>>
        /\ pendingRedraw = TRUE
        /\ exitRequested = FALSE
        /\ panicked = "none"
        /\ newResult = <<[env |-> env, error |-> "none"]>>
        /\ windowsCreated = 1
        /\ rendersCreated = 1
        /\ frame = [result      |-> "ok",
                    log         |-> RenderCall(LongRunRender(env), TRUE).log,
                    ui_at_start |-> UiWavesDefault]
        /\ redraws = LongRunFrames
        /\ frameBase = LongRunFrames
        /\ edits = 0
        /\ lastEvent = Event("RedrawRequested", <<0, 0>>)

SpecLongRun == InitLongRun /\ [][Next]_vars

(***************************************************************************)
(* Properties                                                              *)
(***************************************************************************)
Initialized == app = "Initialized"
R == render[1]
UiWavesNow == R.ui.waves

\* C1: over any sequence of resumed() and window_event() calls at most one
\* window and one Render are created; they are created only by resumed() on
\* an Uninitialized App; resumed() on an Initialized App changes nothing; an
\* Initialized App never returns to Uninitialized.
C1_SingleInitialisation ==
    [][/\ windowsCreated' <= 1
       /\ rendersCreated' <= 1
       /\ (windowsCreated' # windowsCreated \/ rendersCreated' # rendersCreated)
             => (app = "Uninitialized" /\ lastEvent'.kind = "resumed")
       /\ (app = "Initialized" /\ lastEvent'.kind = "resumed")
             => UNCHANGED <<app, render, windowsCreated, rendersCreated,
                            newResult, panicked, exitRequested, pendingRedraw,
                            frame, redraws>>
       /\ (app = "Initialized" => app' = "Initialized")]_vars

\* A resumed() call handled by an App that was initialised and has rendered.
C1_Witness ==
    /\ Initialized
    /\ lastEvent.kind = "resumed"
    /\ redraws > 0
    /\ windowsCreated = 1
    /\ rendersCreated = 1

\* C2: in every frame the instance range of the sine pipeline's
\* draw_indexed equals the number of UI wave slots whose init flag was true
\* when the frame's wave data was synchronised.
C2_DrawsActiveWaves ==
    frame.result = "ok" =>
        \A i \in 1 .. Len(frame.log) :
            frame.log[i].op = "sine_pass" =>
                frame.log[i].instances = ActiveCount(frame.ui_at_start)

\* C3: a click on "Add Wave" sets the init flag of the lowest-indexed slot
\* that is not init and changes nothing else in the slots; a pass that
\* starts with all 8 slots init does not offer the button and leaves the
\* slots alone; the number of active waves stays at 8 once it is 8.
C3_AddWave ==
    [][(app = "Initialized" /\ app' = "Initialized") =>
          LET w == render[1].ui.waves
              w2 == render'[1].ui.waves
              pass == redraws' = redraws + 1 /\ frame'.result = "ok"
              clicked == render[1].ui.input.kind = "add"
              full == \A i \in Slots : w[i].init
          IN  /\ (pass /\ clicked /\ ~full) =>
                    \E p \in Slots :
                        /\ ~w[p].init
                        /\ \A j \in Slots : j < p => w[j].init
                        /\ \A j \in Slots : w2[j].init <=> (w[j].init \/ j = p)
                        /\ \A j \in Slots : [w2[j] EXCEPT !.init = FALSE]
                                            = [w[j] EXCEPT !.init = FALSE]
              /\ (pass /\ ~clicked) => \A j \in Slots : w2[j].init = w[j].init
              /\ (pass /\ full) => ~render'[1].ui.button
              /\ (pass /\ full /\ clicked) => w2 = w
              /\ (pass /\ ~full) => render'[1].ui.button
              /\ full => \A i \in Slots : w2[i].init]_vars

\* All 8 slots were added by clicks and the last pass offered no button.
C3_Witness ==
    /\ Initialized
    /\ ActiveCount(UiWavesNow) = NumSlots
    /\ R.ui.drawn
    /\ ~R.ui.button
    /\ frame.result = "ok"

\* C4: when a frame's sine pass is recorded, for every index i that exists
\* both in the pipeline's wave list and in the UI's 8 slots, the pipeline
\* wave i's six parameters equal the values UI slot i held when that
\* render() call started.
C4_EditsReachRenderer ==
    (Initialized /\ frame.result = "ok") =>
        \A i \in 1 .. Len(R.sine_pipeline.wave_data) :
            (i - 1) \in Slots =>
                LET drawn == R.sine_pipeline.wave_buffer[i]
                    held == R.sine_pipeline.wave_data[i]
                    ui == frame.ui_at_start[i - 1]
                IN  /\ drawn = held
                    /\ drawn.center = ui.center
                    /\ drawn.inner_radius = ui.inner_radius
                    /\ drawn.thickness = ui.thickness
                    /\ drawn.amplitude = ui.amplitude
                    /\ drawn.cycles = ui.cycles
                    /\ drawn.speed = ui.speed

\* An earlier edit (speed of slot 0) is in the pipeline, and the edit made
\* during this frame (amplitude of slot 0) is in the UI but not yet drawn.
C4_Witness ==
    /\ Initialized
    /\ frame.result = "ok"
    /\ Len(R.sine_pipeline.wave_data) >= 1
    /\ R.sine_pipeline.wave_buffer[1].speed = -100
    /\ UiWavesNow[0].amplitude = 100
    /\ R.sine_pipeline.wave_buffer[1].amplitude = 50

\* C5: the animation phase of the sine pipeline starts at 0 and grows by
\* exactly 1 on every render() call, so it always equals the number of
\* RedrawRequested events handled since initialisation.
C5_PhaseCountsFrames ==
    Initialized =>
        /\ R.sine_pipeline.global.phase = redraws
        /\ R.sine_pipeline.global_buffer.phase = redraws

\* C6: if any step of Render::new fails, Render::new returns an error
\* without building a Render, the caller receives the error, and App never
\* enters the Initialized state.
C6_InitErrorsPropagate ==
    \A i \in 1 .. Len(newResult) :
        LET env == newResult[i].env
            failed == \/ ~env.surface
                      \/ ~env.adapter
                      \/ ~env.device
                      \/ Len(env.formats) = 0
                      \/ Len(env.present_modes) = 0
                      \/ Len(env.alpha_modes) = 0
        IN  failed =>
                /\ newResult[i].error # "none"
                /\ rendersCreated = 0
                /\ render = <<>>
                /\ app = "Uninitialized"
                /\ panicked = "Failed to create render"

\* Render::new failed at its last fallible step and resumed() received the
\* error.
C6_Witness ==
    /\ Len(newResult) = 1
    /\ newResult[1].env.surface
    /\ newResult[1].env.adapter
    /\ newResult[1].env.device
    /\ Len(newResult[1].env.alpha_modes) = 0
    /\ newResult[1].error = "No supported alpha modes found"
    /\ app = "Uninitialized"

\* The passes, the submit and the present of the last render() call.
FrameCommands ==
    SelectSeq(frame.log,
              LAMBDA st : st.op \in {"sine_pass", "post_pass", "ui_pass",
                                     "submit", "present"})

\* C7: within one successful render() call: the sine pass onto the
\* off-screen texture (cleared to black), then the post pass onto the
\* surface texture (cleared to black) sampling that off-screen texture, then
\* the UI pass onto the same surface texture with load, then one submit,
\* then one present.
C7_FrameOrder ==
    frame.result = "ok" =>
        LET c == FrameCommands IN
        /\ Len(c) = 5
        /\ c[1].op = "sine_pass"
        /\ c[1].target # SurfaceView
        /\ c[1].load = "clear_black"
        /\ c[2].op = "post_pass"
        /\ c[2].target = SurfaceView
        /\ c[2].load = "clear_black"
        /\ c[2].source = c[1].target
        /\ c[3].op = "ui_pass"
        /\ c[3].target = c[2].target
        /\ c[3].load = "load"
        /\ c[4].op = "submit"
        /\ c[5].op = "present"
        /\ (Initialized /\ lastEvent.kind = "RedrawRequested")
              => c[1].target = R.off_screen_texture_view

\* A successful frame rendered after a resize replaced the off-screen
\* texture.
C7_Witness ==
    /\ Initialized
    /\ frame.result = "ok"
    /\ Len(frame.log) = 6
    /\ frame.log[2].target = 2

\* C8: immediately after initialisation exactly slot 0 is active and all 8
\* slots hold the default parameters.
C8_FreshWaves ==
    (Initialized /\ ~R.ui.drawn) =>
        \A i \in Slots :
            /\ UiWavesNow[i].init = (i = 0)
            /\ UiWavesNow[i].center = <<500, 500>>
            /\ UiWavesNow[i].inner_radius = 500
            /\ UiWavesNow[i].thickness = 10
            /\ UiWavesNow[i].amplitude = 50
            /\ UiWavesNow[i].cycles = 8000
            /\ UiWavesNow[i].speed = 5

\* The state resumed() leaves when it has just initialised the App.
C8_Witness ==
    /\ Initialized
    /\ lastEvent.kind = "resumed"
    /\ redraws = 0
    /\ ~R.ui.drawn
    /\ ActiveCount(UiWavesNow) = 1

\* C9: a CloseRequested event delivered to an Initialized App always
\* requests exit of the event loop.
C9_CloseExits ==
    (Initialized /\ lastEvent.kind = "CloseRequested") => exitRequested

\* CloseRequested handled after frames, an added wave and a resize.
C9_Witness ==
    /\ Initialized
    /\ lastEvent.kind = "CloseRequested"
    /\ exitRequested
    /\ redraws > 1
    /\ ActiveCount(UiWavesNow) > 1
    /\ R.textures_created > 1

\* C10: after a Resized event with width > 0 and height > 0 the surface
\* configuration, the resolution in both pipelines' Global and the size of
\* the off-screen texture all equal the new size.
C10_ResizeApplied ==
    (/\ Initialized
     /\ lastEvent.kind = "Resized"
     /\ lastEvent.size[1] > 0
     /\ lastEvent.size[2] > 0) =>
        LET w == lastEvent.size[1]
            h == lastEvent.size[2]
        IN  /\ R.config.width = w
            /\ R.config.height = h
            /\ R.surface_config = [width |-> w, height |-> h]
            /\ R.sine_pipeline.global.resolution = <<w, h>>
            /\ R.sine_pipeline.global_buffer.resolution = <<w, h>>
            /\ R.post_pipeline.global.resolution = <<w, h>>
            /\ R.post_pipeline.global_buffer.resolution = <<w, h>>
            /\ R.off_screen_texture.width = w
            /\ R.off_screen_texture.height = h

\* A Resized(1024, 768) event handled by an App whose window was 640 x 480.
C10_Witness ==
    /\ Initialized
    /\ lastEvent = Event("Resized", <<1024, 768>>)
    /\ newResult[1].env.size = <<640, 480>>
    /\ R.textures_created = 2

\* C11: after initialisation the post pipeline's off-screen bind group
\* always refers to the current off-screen texture view, and that view
\* belongs to the current (newest) off-screen texture; in a frame the post
\* pass samples the view the sine pass rendered into, which is the current
\* one, whatever resizes came before.
C11_BindGroupCurrent ==
    Initialized =>
        /\ R.post_pipeline.off_screen_bind_group = R.off_screen_texture_view
        /\ R.off_screen_texture_view = R.off_screen_texture.id
        /\ R.off_screen_texture.id = R.textures_created
        /\ (frame.result = "ok" /\ lastEvent.kind = "RedrawRequested") =>
              \A i \in 1 .. Len(frame.log) :
                  /\ frame.log[i].op = "post_pass" =>
                        frame.log[i].source = R.off_screen_texture_view
                  /\ frame.log[i].op = "sine_pass" =>
                        frame.log[i].target = R.off_screen_texture_view

\* A frame rendered after a resize replaced the first off-screen texture:
\* its post pass samples the second texture's view.
C11_Witness ==
    /\ Initialized
    /\ lastEvent.kind = "RedrawRequested"
    /\ frame.result = "ok"
    /\ R.textures_created = 2
    /\ frame.log[3].op = "post_pass"
    /\ frame.log[3].source = 2

\* C12: once a frame has been rendered, RedrawRequested events keep being
\* handled and frames keep being rendered, with no user input needed, until
\* the event loop is asked to exit (CloseRequested or a failed render());
\* within the exploration: until the last frame the bound allows.
C12_FramesKeepComing ==
    (Initialized /\ redraws > frameBase /\ frame.result = "ok")
        ~> (\/ exitRequested
            \/ redraws = frameBase + MaxFrames /\ frame.result = "ok")

\* MaxFrames frames were rendered one after the other with no input to the
\* panel: no wave added, no slider moved.
C12_Witness ==
    /\ Initialized
    /\ redraws = MaxFrames
    /\ frame.result = "ok"
    /\ ~exitRequested
    /\ pendingRedraw
    /\ edits = 0
    /\ ActiveCount(UiWavesNow) = 1

\* The slider ranges of the control panel, in thousandths: center x and y
\* in [0, 1], amplitude in [0, 0.1], inner_radius in [0, 1], thickness in
\* [0.01, 0.1], cycles a whole number in [1, 16], speed in [-0.1, 0.1].
InSliderRanges(w) ==
    /\ w.center[1] \in 0 .. 1000
    /\ w.center[2] \in 0 .. 1000
    /\ w.amplitude \in 0 .. 100
    /\ w.inner_radius \in 0 .. 1000
    /\ w.thickness \in 10 .. 100
    /\ w.cycles \in 1000 .. 16000
    /\ w.cycles % 1000 = 0
    /\ w.speed \in -100 .. 100

\* C13: after any sequence of slider edits every active UI wave's
\* parameters lie inside their slider ranges, and so do the defaults.
C13_ParametersInRange ==
    /\ InSliderRanges(UiSineWaveDataDefault)
    /\ Initialized =>
          \A i \in Slots : UiWavesNow[i].init => InSliderRanges(UiWavesNow[i])

\* Sliders of two waves were dragged beyond both ends of their ranges and
\* between two steps: the values were clamped and snapped.
C13_Witness ==
    /\ Initialized
    /\ UiWavesNow[0].center = <<1000, 0>>
    /\ UiWavesNow[0].cycles = 3000
    /\ UiWavesNow[0].speed = -100
    /\ UiWavesNow[1].init
    /\ UiWavesNow[1].inner_radius = 0
    /\ UiWavesNow[1].thickness = 100

\* C14: in every state after initialisation, also before the first Resized
\* event, the resolution in both pipelines' Global (the value and the
\* uniform buffer) equals the surface configuration's width and height.
C14_ResolutionMatchesSurface ==
    Initialized =>
        LET size == <<R.config.width, R.config.height>> IN
        /\ R.sine_pipeline.global.resolution = size
        /\ R.sine_pipeline.global_buffer.resolution = size
        /\ R.post_pipeline.global.resolution = size
        /\ R.post_pipeline.global_buffer.resolution = size

\* C15: when render() fails to acquire the surface texture during a
\* RedrawRequested event, that call submits no command buffer and presents
\* nothing, and the event loop is asked to exit; the application is never
\* left running after a render error.
C15_RenderErrorExits ==
    frame.result = "err" =>
        /\ \A i \in 1 .. Len(frame.log) :
              frame.log[i].op \notin {"submit", "present"}
        /\ exitRequested
        /\ ~Running
        /\ lastEvent.kind = "RedrawRequested"

\* A render() call failed after earlier frames had been rendered.
C15_Witness ==
    /\ Initialized
    /\ frame.result = "err"
    /\ lastEvent.kind = "RedrawRequested"
    /\ redraws > 2
    /\ exitRequested

\* C16: a Resized event whose width or height is 0 leaves the surface
\* configuration, both pipelines' Global resolution, the off-screen texture
\* and view, and the post pipeline's off-screen bind group unchanged.
C16_ZeroResizeIgnored ==
    [][(/\ app = "Initialized"
        /\ lastEvent'.kind = "Resized"
        /\ (lastEvent'.size[1] = 0 \/ lastEvent'.size[2] = 0)) =>
          LET r == render[1]
              r2 == render'[1]
          IN  /\ r2.config = r.config
              /\ r2.surface_config = r.surface_config
              /\ r2.sine_pipeline.global.resolution
                    = r.sine_pipeline.global.resolution
              /\ r2.sine_pipeline.global_buffer.resolution
                    = r.sine_pipeline.global_buffer.resolution
              /\ r2.post_pipeline.global.resolution
                    = r.post_pipeline.global.resolution
              /\ r2.post_pipeline.global_buffer.resolution
                    = r.post_pipeline.global_buffer.resolution
              /\ r2.off_screen_texture = r.off_screen_texture
              /\ r2.off_screen_texture_view = r.off_screen_texture_view
              /\ r2.textures_created = r.textures_created
              /\ r2.post_pipeline.off_screen_bind_group
                    = r.post_pipeline.off_screen_bind_group]_vars

\* A Resized event of height 0 handled by an App that had been resized to
\* 1024 x 768 and had rendered: everything still has that size.
C16_Witness ==
    /\ Initialized
    /\ lastEvent = Event("Resized", <<800, 0>>)
    /\ redraws > 0
    /\ R.textures_created = 2
    /\ R.config.width = 1024
    /\ R.config.height = 768
    /\ R.off_screen_texture.height = 768

\* C17: a window event delivered while App is Uninitialized has no effect:
\* the App stays Uninitialized, no Render exists, nothing is rendered or
\* resized, no redraw is requested, the UI gets no input and no exit is
\* requested, also for CloseRequested.
C17_UninitializedIgnoresEvents ==
    [][(/\ app = "Uninitialized"
        /\ lastEvent'.kind \in {"CloseRequested", "Resized",
                                "RedrawRequested", "Other"}) =>
          /\ app' = "Uninitialized"
          /\ render' = <<>>
          /\ UNCHANGED <<render, pendingRedraw, exitRequested, panicked,
                         newResult, windowsCreated, rendersCreated, frame,
                         redraws, edits>>]_vars

\* CloseRequested was delivered before resumed(): the App is still
\* Uninitialized and running.
C17_Witness ==
    /\ app = "Uninitialized"
    /\ lastEvent.kind = "CloseRequested"
    /\ ~exitRequested
    /\ Running
    /\ render = <<>>
    /\ frame = NoFrame

\* The slots that are init are slots 0 .. k-1 for some k in 1 .. 8.
ActivePrefix(waves) ==
    \E k \in 1 .. NumSlots : \A i \in Slots : waves[i].init <=> (i < k)

\* C18: whenever the UI exists its active wave slots form a non-empty
\* prefix of the 8 slots, and no step clears an init flag, so the number of
\* active slots never decreases.
C18_ActiveSlotsPrefix ==
    [][/\ app' = "Initialized" => ActivePrefix(render'[1].ui.waves)
       /\ (app = "Initialized" /\ app' = "Initialized") =>
             /\ \A i \in Slots :
                   render[1].ui.waves[i].init => render'[1].ui.waves[i].init
             /\ ActiveCount(render'[1].ui.waves)
                   >= ActiveCount(render[1].ui.waves)]_vars

\* Four waves are active (three were added), sliders were moved, the window
\* was resized: the active slots are 0 .. 3.
C18_Witness ==
    /\ Initialized
    /\ ActiveCount(UiWavesNow) = 4
    /\ \A i \in Slots : UiWavesNow[i].init <=> (i < 4)
    /\ edits > 1
    /\ R.textures_created > 1

\* C19: a Resized event leaves the sine pipeline's phase, the pipeline's
\* wave list (count and parameters, held and uploaded) and the UI wave
\* slots unchanged; a RedrawRequested event (render()) leaves the
\* resolution of both pipelines' Global and the surface configuration
\* unchanged.
C19_ResizeAndRenderSeparate ==
    [][(app = "Initialized" /\ app' = "Initialized") =>
          LET r == render[1]
              r2 == render'[1]
          IN  /\ lastEvent'.kind = "Resized" =>
                    /\ r2.sine_pipeline.global.phase
                          = r.sine_pipeline.global.phase
                    /\ r2.sine_pipeline.global_buffer.phase
                          = r.sine_pipeline.global_buffer.phase
                    /\ r2.sine_pipeline.wave_data = r.sine_pipeline.wave_data
                    /\ r2.sine_pipeline.wave_buffer
                          = r.sine_pipeline.wave_buffer
                    /\ r2.ui.waves = r.ui.waves
              /\ lastEvent'.kind = "RedrawRequested" =>
                    /\ r2.sine_pipeline.global.resolution
                          = r.sine_pipeline.global.resolution
                    /\ r2.sine_pipeline.global_buffer.resolution
                          = r.sine_pipeline.global_buffer.resolution
                    /\ r2.post_pipeline.global.resolution
                          = r.post_pipeline.global.resolution
                    /\ r2.post_pipeline.global_buffer.resolution
                          = r.post_pipeline.global_buffer.resolution
                    /\ r2.config = r.config
                    /\ r2.surface_config = r.surface_config]_vars

\* A Resized(1024, 768) event handled after frames were rendered, a wave
\* added and sliders moved: the phase still counts the frames and the edited
\* values are still in the pipeline.
C19_Witness ==
    /\ Initialized
    /\ lastEvent = Event("Resized", <<1024, 768>>)
    /\ redraws > 2
    /\ R.sine_pipeline.global.phase = redraws
    /\ R.sine_pipeline.global.resolution = <<1024, 768>>
    /\ ActiveCount(UiWavesNow) > 1
    /\ R.sine_pipeline.wave_buffer[1].center[1] = 1000

============================================================================
